---- MODULE Spec2Model ----
(***************************************************************************)
(* A model of the Spotify playlist ETL: the paginated fetcher              *)
(* (connectors/spotify.py), the PostgreSQL load engine                     *)
(* (connectors/postgresql.py), the load dispatcher and the transform       *)
(* (assets/spotify.py), the run metadata logger                            *)
(* (assets/metadata_logging.py), and the pipeline, its driver run_pipeline *)
(* and the scheduling loop (pipelines/spotify.py).                         *)
(***************************************************************************)
EXTENDS Integers, Sequences, FiniteSets, TLC

(***************************************************************************)
(* Bounds of the model.                                                    *)
(***************************************************************************)
\* the most records in one batch handed to the load engine
MaxBatch == 2
\* the longest page chain the remote source serves
MaxPages == 3
\* the most items on one page
MaxPageLen == 2
\* the last instant of the clock, in ticks
MaxTime == 2
\* the most loggers constructed
MaxLoggers == 2
\* the most rows the log table holds
MaxRows == 2
\* the most invocations of run_pipeline
MaxRuns == 2
\* the most items in the playlist a pipeline run extracts
MaxItems == 2
\* keys missing from an answer of the remote source
MaxMissing == 2

(***************************************************************************)
(* Values.                                                                 *)
(***************************************************************************)
\* raw playlist items; two values, so that a page may repeat an item
Items == {"a", "b"}
\* snapshot ids of the playlist
Snapshots == {"s1", "s2"}
\* HTTP statuses a page request may answer with
HTTP_OK == 200
Statuses == {200, 429}
\* a falsy `next` (null, absent): the page is the last one
NoNext == 0

VARIABLES
    api,            \* the remote source snapshot the current fetch reads
    fetch_pc,       \* position of get_playlist_data: idle, loop, returned, raised
    playlist_data,  \* local of get_playlist_data
    all_tracks,     \* local of get_playlist_data
    requests,       \* URLs requested by the current fetch, in order
    fetch_ret       \* what get_playlist_data handed to its caller

fetch_vars == <<api, fetch_pc, playlist_data, all_tracks, requests, fetch_ret>>

VARIABLES
    db,             \* the PostgreSQL database: its tables and dependent views
    call,           \* the observed load-engine call and its arguments
    pre,            \* the database as the observed call found it
    result,         \* "ok", or the error the observed call raised
    ncalls,         \* how many times the observed call has been made
    fetched         \* what select_all returned after the observed call

load_vars == <<db, call, pre, result, ncalls, fetched>>

VARIABLES
    log_table,      \* the pipeline_logs table of the logging database
    now,            \* the clock, in ticks
    loggers,        \* the MetaDataLogging objects constructed so far, in order
    log_call        \* the last call made on the logging class and its outcome

log_vars == <<log_table, now, loggers, log_call>>

VARIABLES
    loops,          \* the scheduling loops (one per driver process)
    invs            \* the invocations of run_pipeline made so far, in order

run_vars == <<loops, invs>>

VARIABLES
    tf_input,       \* the keys present in the data handed to transform
    tf_output       \* the columns of the three DataFrames transform returned

tf_vars == <<tf_input, tf_output>>

(***************************************************************************)
(* The remote source.  Page i of the chain is served at URL i; URL 1 is    *)
(* the playlist endpoint itself, whose response is the top-level playlist  *)
(* object with the first page under `tracks`.                              *)
(***************************************************************************)
SeqsUpTo(S, n) == UNION {[1..k -> S] : k \in 0..n}

PageSet == [items : SeqsUpTo(Items, MaxPageLen), status : Statuses]

Sources == [id : {"p1"}, name : {"n1"}, snapshot_id : Snapshots,
            pages : UNION {[1..k -> PageSet] : k \in 1..MaxPages}]

\* the paging object a request for page i answers with
PageObject(src, i) ==
    [items |-> src.pages[i].items,
     next  |-> IF i < Len(src.pages) THEN i + 1 ELSE NoNext]

\* the body of the response to the initial request
PlaylistObject(src) ==
    [id |-> src.id, name |-> src.name, snapshot_id |-> src.snapshot_id,
     tracks |-> PageObject(src, 1)]

NoData == [id |-> "", name |-> "", snapshot_id |-> "",
           tracks |-> [items |-> <<>>, next |-> NoNext]]
NoSource == [id |-> "", name |-> "", snapshot_id |-> "", pages |-> <<>>]
NoRet == [kind |-> "none", playlist_data |-> NoData, all_tracks |-> <<>>,
          status |-> 0]

Raised(s) == [kind |-> "raise", playlist_data |-> NoData, all_tracks |-> <<>>,
              status |-> s]
Returned(pd, tr) == [kind |-> "return", playlist_data |-> pd,
                     all_tracks |-> tr, status |-> 0]

(***************************************************************************)
(* The destination schemas (pipeline, table_schemas).  Each table is       *)
(* represented by its primary-key column and its first non-key column.     *)
(***************************************************************************)
table_schemas ==
    [tracks |-> [name |-> "tracks", columns |-> {"track_id", "track_name"},
                 primary_key |-> {"track_id"}],
     albums |-> [name |-> "albums", columns |-> {"album_id", "album_name"},
                 primary_key |-> {"album_id"}]]

TableNames == DOMAIN table_schemas

\* a data_dict key that has no schema
UnknownTable == "genres"

\* values of a column
Values == {1, 2}

\* the record with value k in the key columns and v in the others
MkRecord(table, k, v) ==
    [c \in table.columns |-> IF c \in table.primary_key THEN k ELSE v]

\* batches are written as sequences of <<key value, non-key value>>, turned
\* into the records of a table by df.to_dict(orient="records")
Templates ==
    UNION {[1..n -> Values \X Values] : n \in 1..MaxBatch}

to_dict(table, tpl) ==
    [i \in 1..Len(tpl) |-> MkRecord(table, tpl[i][1], tpl[i][2])]

\* MetaData objects: the set of table names registered in them.  MetaData()
\* is empty; the MetaData the schemas were declared with holds them all.
EmptyMetaData == {}
SchemaMetaData == TableNames
MetaDatas == {EmptyMetaData, SchemaMetaData}

LoadMethods == {"insert", "upsert", "overwrite"}
\* what callers pass as load_method: the three methods and an unknown one
MethodArgs == LoadMethods \cup {"merge"}

(***************************************************************************)
(* The database.  Statements run in autocommit mode, one at a time; a      *)
(* statement that fails changes nothing.  A table is the set of its rows;  *)
(* when it exists it has the columns and the primary key of its schema in  *)
(* table_schemas, the only schema the program declares for that name.      *)
(* Batches are non-empty, as the records of a fetched playlist are.        *)
(***************************************************************************)
NoTable == [exists |-> FALSE, rows |-> {}]
EmptyTable == [exists |-> TRUE, rows |-> {}]

EmptyDb == [tables |-> [t \in TableNames |-> NoTable], views |-> {}]

Ok(D) == [db |-> D, err |-> "ok"]
Fail(D, e) == [db |-> D, err |-> e]

Range(f) == {f[i] : i \in DOMAIN f}

\* key_columns of upsert: the names of the declared primary-key columns
key_columns(table) == table.primary_key

KeyOf(rec, cols) == [c \in cols |-> rec[c]]

\* two records of the batch carry the same key
HasDuplicateKeys(data, cols) ==
    \E i, j \in 1..Len(data) : i # j /\ KeyOf(data[i], cols) = KeyOf(data[j], cols)

\* CREATE TABLE, issued only when the table is absent (checkfirst)
CreateIfAbsent(D, t) ==
    IF D.tables[t].exists THEN D
    ELSE [D EXCEPT !.tables[t] = EmptyTable]

\* MetaData.create_all: create every table registered in the MetaData
create_all_recreate(D, metadata) ==
    [D EXCEPT !.tables = [t \in TableNames |->
        IF t \in metadata THEN EmptyTable ELSE D.tables[t]]]
create_all(D, metadata) ==
    [D EXCEPT !.tables = [t \in TableNames |->
        IF t \in metadata THEN CreateIfAbsent(D, t).tables[t] ELSE D.tables[t]]]

\* the orders in which a SELECT without ORDER BY may return the rows of a set
RowOrders(S) == {f \in [1..Cardinality(S) -> S] : Range(f) = S}

\* PostgreSqlClient.select_all: the lists engine.execute(table.select()).all()
\* may return for an existing table
select_all_first(D, table) ==
    {IF f = <<>> THEN <<>> ELSE <<f[1]>> : f \in RowOrders(D.tables[table.name].rows)}
select_all(D, table) == RowOrders(D.tables[table.name].rows)

\* PostgreSqlClient.create_tables
create_tables(D, schemas) ==
    Ok([D EXCEPT !.tables = [t \in TableNames |->
        IF t \in schemas THEN CreateIfAbsent(D, t).tables[t] ELSE D.tables[t]]])

\* PostgreSqlClient.drop_table: "drop table if exists <name>;"
drop_table_cascade(D, t) ==
    Ok([D EXCEPT !.tables[t] = NoTable, !.views = @ \ {t}])
drop_table(D, t) ==
    IF ~D.tables[t].exists THEN Ok(D)
    ELSE IF t \in D.views THEN Fail(D, "DependentObjectsStillExist")
    ELSE Ok([D EXCEPT !.tables[t] = NoTable])

\* "create view <name> as <query>" of the pipeline, the query reading table t
create_view(D, t) ==
    IF ~D.tables[t].exists THEN Fail(D, "UndefinedTable")
    ELSE Ok([D EXCEPT !.views = @ \cup {t}])

\* INSERT INTO table VALUES (...), (...)
ExecInsertNoCheck(D, table, data) ==
    IF ~D.tables[table.name].exists THEN Fail(D, "UndefinedTable")
    ELSE Ok([D EXCEPT !.tables[table.name].rows = @ \cup Range(data)])
ExecInsert(D, table, data) ==
    LET pk == table.primary_key
        rows == D.tables[table.name].rows
    IN  IF ~D.tables[table.name].exists THEN Fail(D, "UndefinedTable")
        ELSE IF \/ HasDuplicateKeys(data, pk)
                \/ \E i \in 1..Len(data) : \E r \in rows :
                       KeyOf(r, pk) = KeyOf(data[i], pk)
        THEN Fail(D, "UniqueViolation")
        ELSE Ok([D EXCEPT !.tables[table.name].rows = @ \cup Range(data)])

\* the row an ON CONFLICT DO UPDATE leaves: the columns named in set_ take
\* the incoming (excluded) values, the others keep the row's
UpdateRowKeepAll(old, rec, set_) == old
UpdateRow(old, rec, set_) ==
    [c \in DOMAIN old |-> IF c \in set_ THEN rec[c] ELSE old[c]]

\* INSERT ... ON CONFLICT (index_elements) DO UPDATE SET set_
ExecUpsertDeleteConflicts(D, table, data, index_elements, set_) ==
    LET rows == D.tables[table.name].rows
        Conflicts(rec) ==
            {r \in rows : KeyOf(r, index_elements) = KeyOf(rec, index_elements)}
    IN  IF ~D.tables[table.name].exists THEN Fail(D, "UndefinedTable")
        ELSE Ok([D EXCEPT !.tables[table.name].rows =
                {r \in rows : \A i \in 1..Len(data) : r \notin Conflicts(data[i])}
                \cup {data[i] : i \in {j \in 1..Len(data) : Conflicts(data[j]) = {}}}])
ExecUpsert(D, table, data, index_elements, set_) ==
    LET rows == D.tables[table.name].rows
        Conflicts(rec) ==
            {r \in rows : KeyOf(r, index_elements) = KeyOf(rec, index_elements)}
    IN  IF ~D.tables[table.name].exists THEN Fail(D, "UndefinedTable")
        \* the conflict target must be the columns of a unique index
        ELSE IF index_elements # table.primary_key
        THEN Fail(D, "InvalidColumnReference")
        \* one statement may not affect a row twice
        ELSE IF HasDuplicateKeys(data, index_elements)
        THEN Fail(D, "CardinalityViolation")
        ELSE Ok([D EXCEPT !.tables[table.name].rows =
                {r \in rows : \A i \in 1..Len(data) : r \notin Conflicts(data[i])}
                \cup {IF Conflicts(data[i]) = {} THEN data[i]
                      ELSE UpdateRow(CHOOSE r \in Conflicts(data[i]) : TRUE,
                                     data[i], set_) : i \in 1..Len(data)}])

\* PostgreSqlClient.insert
insert(D, data, table, metadata) ==
    ExecInsert(create_all(D, metadata), table, data)

\* PostgreSqlClient.overwrite
overwrite_transactional(D, data, table, metadata) ==
    LET dropped == drop_table(D, table.name)
        r == insert(dropped.db, data, table, metadata)
    IN  IF dropped.err # "ok" THEN dropped
        ELSE IF r.err # "ok" THEN Fail(D, r.err) ELSE r
overwrite(D, data, table, metadata) ==
    LET dropped == drop_table(D, table.name)
    IN  IF dropped.err # "ok" THEN dropped
        ELSE insert(dropped.db, data, table, metadata)

\* overwrite when the process stops between its two statements: the drop has
\* run (autocommit), the insert never does
overwrite_interrupted(D, table) ==
    LET dropped == drop_table(D, table.name)
    IN  IF dropped.err # "ok" THEN dropped
        ELSE Fail(dropped.db, "Interrupted")

\* PostgreSqlClient.upsert
upsert_delete_conflicts(D, data, table, metadata) ==
    LET cols == key_columns(table)
    IN  ExecUpsertDeleteConflicts(create_all(D, metadata), table, data, cols,
                                  table.columns \ cols)
upsert(D, data, table, metadata) ==
    LET cols == key_columns(table)
    IN  ExecUpsert(create_all(D, metadata), table, data, cols,
                   table.columns \ cols)

\* method_mapping[load_method](data=..., table=..., metadata=...)
method_mapping(load_method, D, data, table, metadata) ==
    CASE load_method = "insert"    -> insert(D, data, table, metadata)
      [] load_method = "upsert"    -> upsert(D, data, table, metadata)
      [] load_method = "overwrite" -> overwrite(D, data, table, metadata)
      [] OTHER                     -> Fail(D, "KeyError")

\* the MetaData load_data hands to the method: MetaData()
LoadMetaData == EmptyMetaData

\* the loop of load_data over data_dict.items(); names lists the keys of
\* data_dict in order, data_dict gives the records of each
RECURSIVE load_loop(_, _, _, _, _)
load_loop(D, names, data_dict, schemas, load_method) ==
    IF names = <<>> THEN Ok(D)
    ELSE IF Head(names) \in schemas
    THEN LET table == table_schemas[Head(names)]
             r == method_mapping(load_method, D,
                                 to_dict(table, data_dict[Head(names)]), table,
                                 LoadMetaData)
         IN  IF r.err # "ok" THEN r
             ELSE load_loop(r.db, Tail(names), data_dict, schemas, load_method)
    ELSE Fail(D, "SchemaNotFound")

\* load_data: the check of load_method against method_mapping, then the loop
load_data_default_method(D, names, data_dict, schemas, load_method) ==
    load_loop(D, names, data_dict, schemas,
              IF load_method \in LoadMethods THEN load_method ELSE "overwrite")
load_data(D, names, data_dict, schemas, load_method) ==
    IF load_method \notin LoadMethods THEN Fail(D, "InvalidLoadMethod")
    ELSE load_loop(D, names, data_dict, schemas, load_method)

(***************************************************************************)
(* pipeline (pipelines/spotify.py): extract, transform, create the tables, *)
(* load them by upsert, create the views.  A playlist item carries the     *)
(* columns of its track and of the album of the track.                     *)
(***************************************************************************)
PlaylistItems ==
    [track_id : Values, track_name : Values, album_id : Values, album_name : Values]

\* what the remote source answers during one run: every request with 200
\* and these items, or some playlist page request with an error status
\* (status), or the playlist requests with 200 and some artist request with
\* an error status (artist_status)
PipelineSources ==
    [status : {HTTP_OK}, items : SeqsUpTo(PlaylistItems, MaxItems),
     artist_status : {HTTP_OK}]
        \cup [status : Statuses \ {HTTP_OK}, items : {<<>>},
              artist_status : {HTTP_OK}]
        \cup [status : {HTTP_OK}, items : [1..1 -> PlaylistItems],
              artist_status : Statuses \ {HTTP_OK}]
NoPipelineSource == [status |-> HTTP_OK, items |-> <<>>, artist_status |-> HTTP_OK]

\* DataFrame.drop_duplicates(): the first of equal rows is kept
RECURSIVE drop_duplicates(_)
drop_duplicates(rows) ==
    IF rows = <<>> THEN <<>>
    ELSE LET front == drop_duplicates(SubSeq(rows, 1, Len(rows) - 1))
             last  == rows[Len(rows)]
         IN  IF last \in Range(front) THEN front ELSE Append(front, last)

\* transform: one tracks row per item; the album rows without duplicates
transform(items) ==
    [tracks |-> [i \in 1..Len(items) |-> <<items[i].track_id, items[i].track_name>>],
     albums |-> drop_duplicates(
                    [i \in 1..Len(items) |-> <<items[i].album_id, items[i].album_name>>])]

\* the keys of the pipeline's data_dict, in order
PipelineTables == <<"tracks", "albums">>

\* the views of the sql folder: one reading each destination table
RECURSIVE create_views(_, _)
create_views(D, names) ==
    IF names = <<>> THEN Ok(D)
    ELSE IF Head(names) \in D.views THEN create_views(D, Tail(names))
    ELSE LET r == create_view(D, Head(names))
         IN  IF r.err # "ok" THEN r ELSE create_views(r.db, Tail(names))

pipeline_create_first(D, source) ==
    LET created == create_tables(D, Range(PipelineTables))
    IN  IF source.status # HTTP_OK THEN Fail(created.db, "HTTPError")
        ELSE IF source.items = <<>> THEN Fail(created.db, "KeyError")
        ELSE IF source.artist_status # HTTP_OK THEN Fail(created.db, "HTTPError")
        ELSE LET data_dict == transform(source.items)
                 loaded    == load_data(created.db, PipelineTables, data_dict,
                                        Range(PipelineTables), "upsert")
             IN  IF loaded.err # "ok" THEN loaded
                 ELSE create_views(loaded.db, PipelineTables)
pipeline(D, source) ==
    \* extract_playlist_data: get_playlist_data raises on a non-200 answer
    IF source.status # HTTP_OK THEN Fail(D, "HTTPError")
    \* an empty DataFrame has no 'track.artists' column
    ELSE IF source.items = <<>> THEN Fail(D, "KeyError")
    \* extract_artist_data: get_artist raises on a non-200 answer
    ELSE IF source.artist_status # HTTP_OK THEN Fail(D, "HTTPError")
    ELSE LET data_dict == transform(source.items)
             created   == create_tables(D, Range(PipelineTables))
             loaded    == load_data(created.db, PipelineTables, data_dict,
                                    Range(PipelineTables), "upsert")
         IN  IF loaded.err # "ok" THEN loaded
             ELSE create_views(loaded.db, PipelineTables)

(***************************************************************************)
(* Calls of the load engine.  The database is built up by calls that are   *)
(* not recorded; one call is then observed: its arguments, the database it *)
(* found and its outcome are kept, and it may be made a second time.       *)
(***************************************************************************)
NoCall == [op |-> "none", table |-> "", tpl |-> <<>>, metadata |-> {},
           names |-> <<>>, schemas |-> {}, load_method |-> "",
           source |-> NoPipelineSource]

\* the keys of data_dict, in order
NameLists ==
    LET N == TableNames \cup {UnknownTable}
    IN  {<<a>> : a \in N} \cup {<<x[1], x[2]>> : x \in {y \in N \X N : y[1] # y[2]}}

Apply(c, D) ==
    CASE c.op = "create_tables" -> create_tables(D, c.schemas)
      [] c.op = "drop_table"    -> drop_table(D, c.table)
      [] c.op = "create_view"   -> create_view(D, c.table)
      [] c.op = "insert"        ->
            insert(D, to_dict(table_schemas[c.table], c.tpl),
                   table_schemas[c.table], c.metadata)
      [] c.op = "overwrite"     ->
            overwrite(D, to_dict(table_schemas[c.table], c.tpl),
                      table_schemas[c.table], c.metadata)
      [] c.op = "overwrite_interrupted" ->
            overwrite_interrupted(D, table_schemas[c.table])
      [] c.op = "upsert"        ->
            upsert(D, to_dict(table_schemas[c.table], c.tpl),
                   table_schemas[c.table], c.metadata)
      [] c.op = "load_data"     ->
            load_data(D, c.names, [n \in Range(c.names) |-> c.tpl], c.schemas,
                      c.load_method)
      [] c.op = "pipeline"      -> pipeline(D, c.source)

Step(c, observed) ==
    /\ ncalls = 0
    /\ db' = Apply(c, db).db
    /\ IF observed
       THEN /\ call' = c
            /\ pre' = db
            /\ result' = Apply(c, db).err
            /\ ncalls' = 1
       ELSE UNCHANGED <<call, pre, result, ncalls>>
    /\ UNCHANGED <<fetched, fetch_vars, log_vars, run_vars, tf_vars>>

CreateTables(schemas, observed) ==
    Step([NoCall EXCEPT !.op = "create_tables", !.schemas = schemas], observed)

DropTable(t, observed) ==
    Step([NoCall EXCEPT !.op = "drop_table", !.table = t], observed)

CreateView(t, observed) ==
    Step([NoCall EXCEPT !.op = "create_view", !.table = t], observed)

Insert(t, tpl, metadata, observed) ==
    Step([NoCall EXCEPT !.op = "insert", !.table = t, !.tpl = tpl,
                        !.metadata = metadata], observed)

Overwrite(t, tpl, metadata, observed) ==
    Step([NoCall EXCEPT !.op = "overwrite", !.table = t, !.tpl = tpl,
                        !.metadata = metadata], observed)

OverwriteInterrupted(t, observed) ==
    Step([NoCall EXCEPT !.op = "overwrite_interrupted", !.table = t], observed)

Upsert(t, tpl, metadata, observed) ==
    Step([NoCall EXCEPT !.op = "upsert", !.table = t, !.tpl = tpl,
                        !.metadata = metadata], observed)

LoadData(names, tpl, load_method, observed) ==
    Step([NoCall EXCEPT !.op = "load_data", !.names = names, !.tpl = tpl,
                        !.schemas = TableNames, !.load_method = load_method],
         observed)

\* one run of the pipeline against what the remote source answers
Pipeline(source, observed) ==
    Step([NoCall EXCEPT !.op = "pipeline", !.source = source], observed)

\* what the caller holds before it has called select_all
NoFetched == [table |-> "", err |-> "none", rows |-> <<>>]

\* the tables an observed call writes to
WrittenTables(c) ==
    CASE c.op \in {"insert", "overwrite", "upsert"} -> {c.table}
      [] c.op = "load_data" -> Range(c.names) \cap TableNames
      [] OTHER -> {}

\* select_all(table_schemas[t]) after the observed call: the table is read
\* back once
SelectAll(t) ==
    /\ ncalls = 1
    /\ fetched = NoFetched
    /\ t \in WrittenTables(call)
    /\ IF db.tables[t].exists
       THEN \E rows \in select_all(db, table_schemas[t]) :
                fetched' = [table |-> t, err |-> "none", rows |-> rows]
       ELSE fetched' = [table |-> t, err |-> "UndefinedTable", rows |-> <<>>]
    /\ UNCHANGED <<db, call, pre, result, ncalls, fetch_vars, log_vars, run_vars, tf_vars>>

\* the observed call is made once more with the same arguments
Again ==
    /\ ncalls = 1
    /\ fetched = NoFetched
    /\ db' = Apply(call, db).db
    /\ result' = Apply(call, db).err
    /\ pre' = db
    /\ ncalls' = 2
    /\ UNCHANGED <<call, fetched, fetch_vars, log_vars, run_vars, tf_vars>>

InitLoad ==
    /\ db = EmptyDb
    /\ call = NoCall
    /\ pre = EmptyDb
    /\ result = "ok"
    /\ ncalls = 0
    /\ fetched = NoFetched

NextLoad ==
    \/ ncalls = 0 /\ \E S \in SUBSET TableNames, o \in BOOLEAN : S # {} /\ CreateTables(S, o)
    \/ ncalls = 0 /\ \E t \in TableNames, o \in BOOLEAN : DropTable(t, o)
    \/ ncalls = 0 /\ \E t \in TableNames, o \in BOOLEAN : CreateView(t, o)
    \/ ncalls = 0 /\ \E t \in TableNames, tpl \in Templates, m \in MetaDatas, o \in BOOLEAN :
            Insert(t, tpl, m, o)
    \/ ncalls = 0 /\ \E t \in TableNames, tpl \in Templates, m \in MetaDatas, o \in BOOLEAN :
            Overwrite(t, tpl, m, o)
    \/ ncalls = 0 /\ \E t \in TableNames, o \in BOOLEAN : OverwriteInterrupted(t, o)
    \/ ncalls = 0 /\ \E t \in TableNames, tpl \in Templates, m \in MetaDatas, o \in BOOLEAN :
            Upsert(t, tpl, m, o)
    \/ ncalls = 0 /\ \E names \in NameLists, tpl \in Templates, lm \in MethodArgs, o \in BOOLEAN :
            LoadData(names, tpl, lm, o)
    \/ (ncalls = 1 /\ fetched = NoFetched) /\ \E t \in TableNames : SelectAll(t)
    \/ Again

\* runs of the pipeline: the destination database holds what earlier runs left
NextPipeline ==
    \/ ncalls = 0 /\ \E source \in PipelineSources, o \in BOOLEAN : Pipeline(source, o)
    \/ Again

(***************************************************************************)
(* SpotifyAPIClient.get_playlist_data                                      *)
(***************************************************************************)
\* the status check after each request
IsErrorNever(status) == FALSE
IsError(status) == status # HTTP_OK

\* the URL the loop body requests
NextUrlRebuilt(pd) == 1
NextUrl(pd) == pd.tracks.next

\* playlist_data['tracks'] = response.json()
SetTracksWhole(pd, page) == [NoData EXCEPT !.tracks = page]
SetTracks(pd, page) == [pd EXCEPT !.tracks = page]

\* all_tracks.extend(items)
ExtendDedup(tracks, items) ==
    tracks \o SelectSeq(items, LAMBDA x : \A j \in 1..Len(tracks) : tracks[j] # x)
Extend(tracks, items) == tracks \o items

\* the initial request: raise on a non-200 status, else keep the body and
\* the first page's items.  A call keeps no state of an earlier call, so
\* one call per behaviour covers every call.
get_playlist_data_first(src) ==
    /\ fetch_pc = "idle"
    /\ api' = src
    /\ requests' = <<1>>
    /\ IF IsError(src.pages[1].status)
       THEN /\ fetch_pc' = "raised"
            /\ fetch_ret' = Raised(src.pages[1].status)
            /\ playlist_data' = NoData
            /\ all_tracks' = <<>>
       ELSE /\ fetch_pc' = "loop"
            /\ fetch_ret' = NoRet
            /\ playlist_data' = PlaylistObject(src)
            /\ all_tracks' = PlaylistObject(src).tracks.items
    /\ UNCHANGED <<load_vars, tf_vars, log_vars, run_vars>>

\* one iteration of the while loop: request `next`, raise on a non-200
\* status, else replace playlist_data['tracks'] and extend all_tracks
get_playlist_data_next ==
    /\ fetch_pc = "loop"
    /\ playlist_data.tracks.next # NoNext
    /\ LET url == NextUrl(playlist_data) IN
       /\ requests' = Append(requests, url)
       /\ IF IsError(api.pages[url].status)
          THEN /\ fetch_pc' = "raised"
               /\ fetch_ret' = Raised(api.pages[url].status)
               /\ UNCHANGED <<playlist_data, all_tracks>>
          ELSE /\ playlist_data' = SetTracks(playlist_data, PageObject(api, url))
               /\ all_tracks' = Extend(all_tracks, PageObject(api, url).items)
               /\ UNCHANGED <<fetch_pc, fetch_ret>>
    /\ UNCHANGED <<api, load_vars, tf_vars, log_vars, run_vars>>

\* the loop condition is falsy: return (playlist_data, all_tracks)
get_playlist_data_return ==
    /\ fetch_pc = "loop"
    /\ playlist_data.tracks.next = NoNext
    /\ fetch_pc' = "returned"
    /\ fetch_ret' = Returned(playlist_data, all_tracks)
    /\ UNCHANGED <<api, playlist_data, all_tracks, requests, load_vars, tf_vars, log_vars, run_vars>>

InitFetch ==
    /\ api = NoSource
    /\ fetch_pc = "idle"
    /\ playlist_data = NoData
    /\ all_tracks = <<>>
    /\ requests = <<>>
    /\ fetch_ret = NoRet

NextFetch ==
    \/ fetch_pc = "idle" /\ \E src \in Sources : get_playlist_data_first(src)
    \/ get_playlist_data_next
    \/ get_playlist_data_return


(***************************************************************************)
(* MetaDataLogging (assets/metadata_logging.py): the run log table and the *)
(* loggers that write it.  The logging database answers a call or is       *)
(* unreachable for the whole of it.                                        *)
(***************************************************************************)
PipelineNames == {"spotify", "other"}
Configs == {"c1", "c2"}
\* the pipelines that are configured: each name with its config
LoggerArgs == {<<"spotify", "c1">>, <<"other", "c2">>}

RUN_START == "start"
RUN_SUCCESS == "success"
RUN_FAILURE == "fail"
LogStatuses == {RUN_START, RUN_SUCCESS, RUN_FAILURE}

\* datetime.now().strftime("%Y-%m-%d %H:%M:%S") keeps whole seconds
TicksPerSecond == 2
strftime(t) == t \div TicksPerSecond
Timestamps == {strftime(t) : t \in 0..MaxTime}
\* timestamp=None
NoTimestamp == -1
\* logs=None (NULL in the column); a log text is a non-empty sequence of lines
NoLogs == <<>>
LogTexts == {<<"m">>}
\* the calls of log that are made: a start entry without logs, a terminal
\* entry with the log text of the run
LogArgs ==
    {<<RUN_START, NoLogs>>}
        \cup {<<status, logs>> : status \in {RUN_SUCCESS, RUN_FAILURE}, logs \in LogTexts}

\* the composite primary key of pipeline_logs
log_primary_key == {"pipeline_name", "run_id", "timestamp", "status"}
LogKey(r) == [c \in log_primary_key |-> r[c]]

EmptyLogTable == [exists |-> FALSE, rows |-> {}]

_create_log_table(T) == [T EXCEPT !.exists = TRUE]

\* select max(run_id) where pipeline_name = name: no value (NULL) or one
max_run_id_any_pipeline(T, name) ==
    LET ids == {r.run_id : r \in T.rows}
    IN  IF ids = {} THEN {} ELSE {CHOOSE m \in ids : \A i \in ids : i <= m}
max_run_id(T, name) ==
    LET ids == {r.run_id : r \in {x \in T.rows : x.pipeline_name = name}}
    IN  IF ids = {} THEN {} ELSE {CHOOSE m \in ids : \A i \in ids : i <= m}

\* a variant that also counts the run ids held by loggers already constructed
_get_run_id_reserved(T, name) ==
    LET held == {loggers[i].run_id :
                    i \in {j \in 1..Len(loggers) : loggers[j].pipeline_name = name}}
        ids  == max_run_id(_create_log_table(T), name) \cup held
    IN  IF ids = {} THEN 1 ELSE (CHOOSE m \in ids : \A i \in ids : i <= m) + 1
_get_run_id(T, name) ==
    LET first == max_run_id(_create_log_table(T), name)
    IN  IF first = {} THEN 1 ELSE (CHOOSE m \in first : TRUE) + 1

\* the object __init__ leaves; `seen` remembers the pipeline name and run_id
\* of the rows the table held then
MetaDataLogging(T, name, config) ==
    [pipeline_name |-> name, config |-> config,
     run_id |-> _get_run_id(T, name),
     seen |-> {<<r.pipeline_name, r.run_id>> : r \in T.rows}]

\* engine.execute(insert_statement)
execute_insert_do_nothing(T, row, storage_ok) ==
    IF ~storage_ok THEN [table |-> T, err |-> "OperationalError"]
    ELSE IF ~T.exists THEN [table |-> T, err |-> "UndefinedTable"]
    ELSE [table |-> [T EXCEPT !.rows =
                        IF \E r \in T.rows : LogKey(r) = LogKey(row)
                        THEN @ ELSE @ \cup {row}],
          err |-> "none"]
execute_insert(T, row, storage_ok) ==
    IF ~storage_ok THEN [table |-> T, err |-> "OperationalError"]
    ELSE IF ~T.exists THEN [table |-> T, err |-> "UndefinedTable"]
    ELSE IF \E r \in T.rows : LogKey(r) = LogKey(row)
         THEN [table |-> T, err |-> "UniqueViolation"]
    ELSE [table |-> [T EXCEPT !.rows = @ \cup {row}], err |-> "none"]

\* logger i calls log at instant t; attempts counts the executions it makes
log_swallow_error(T, i, status, timestamp, logs, t, storage_ok) ==
    LET row == [pipeline_name |-> loggers[i].pipeline_name,
                timestamp |-> IF timestamp = NoTimestamp THEN strftime(t) ELSE timestamp,
                run_id |-> loggers[i].run_id, status |-> status,
                config |-> loggers[i].config, logs |-> logs, logger |-> i]
        r   == execute_insert(T, row, storage_ok)
    IN  [table |-> r.table, err |-> "none", attempts |-> 1]
log(T, i, status, timestamp, logs, t, storage_ok) ==
    LET row == [pipeline_name |-> loggers[i].pipeline_name,
                timestamp |-> IF timestamp = NoTimestamp THEN strftime(t) ELSE timestamp,
                run_id |-> loggers[i].run_id, status |-> status,
                config |-> loggers[i].config, logs |-> logs, logger |-> i]
        r   == execute_insert(T, row, storage_ok)
    IN  [table |-> r.table, err |-> r.err, attempts |-> 1]

NoLogCall ==
    [op |-> "none", logger |-> 0, status |-> "", timestamp |-> NoTimestamp,
     storage_ok |-> TRUE, err |-> "none", attempts |-> 0, before |-> {}]

\* The calls made on the class directly build up the log table unrecorded;
\* one call is then observed, log_call keeping its arguments and its outcome.

\* MetaDataLogging(pipeline_name=name, config=config, ...)
Construct(name, config, storage_ok, observed) ==
    /\ log_call.op = "none"
    /\ Len(loggers) < MaxLoggers
    /\ IF storage_ok
       THEN /\ loggers' = Append(loggers, MetaDataLogging(log_table, name, config))
            /\ log_table' = _create_log_table(log_table)
       ELSE UNCHANGED <<loggers, log_table>>
    /\ IF observed
       THEN log_call' = [NoLogCall EXCEPT !.op = "construct", !.storage_ok = storage_ok,
                            !.logger = IF storage_ok THEN Len(loggers) + 1 ELSE 0,
                            !.err = IF storage_ok THEN "none" ELSE "OperationalError",
                            !.before = log_table.rows]
       ELSE UNCHANGED log_call
    /\ UNCHANGED <<now, fetch_vars, load_vars, tf_vars, run_vars>>

\* loggers[i].log(status, timestamp, logs)
Log(i, status, timestamp, logs, storage_ok, observed) ==
    /\ log_call.op = "none"
    /\ Cardinality(log_table.rows) < MaxRows
    /\ LET r == log(log_table, i, status, timestamp, logs, now, storage_ok)
       IN  /\ log_table' = r.table
           /\ IF observed
              THEN log_call' = [op |-> "log", logger |-> i, status |-> status,
                                timestamp |-> timestamp,
                                storage_ok |-> storage_ok, err |-> r.err,
                                attempts |-> r.attempts, before |-> log_table.rows]
              ELSE UNCHANGED log_call
    /\ UNCHANGED <<now, loggers, fetch_vars, load_vars, tf_vars, run_vars>>

\* time passes
Tick ==
    /\ now < MaxTime
    /\ now' = now + 1
    /\ UNCHANGED <<log_table, loggers, log_call, fetch_vars, load_vars, tf_vars, run_vars>>

InitLog ==
    /\ log_table = EmptyLogTable
    /\ now = 0
    /\ loggers = <<>>
    /\ log_call = NoLogCall

NextLog ==
    \/ (log_call.op = "none" /\ Len(loggers) < MaxLoggers) /\
          \E args \in LoggerArgs, storage_ok \in BOOLEAN, o \in BOOLEAN :
              Construct(args[1], args[2], storage_ok, o)
    \/ (log_call.op = "none" /\ Cardinality(log_table.rows) < MaxRows) /\
          \E i \in 1..Len(loggers), args \in LogArgs,
             timestamp \in Timestamps \cup {NoTimestamp},
             storage_ok \in BOOLEAN, o \in BOOLEAN :
              Log(i, args[1], timestamp, args[2], storage_ok, o)
    \/ log_call.op = "none" /\ Tick


(***************************************************************************)
(* run_pipeline and the scheduling loop (pipelines/spotify.py).  A driver  *)
(* process runs one loop; two processes may be started for the same        *)
(* pipeline.  An invocation advances one statement at a time, so that the  *)
(* statements of two processes interleave.                                 *)
(***************************************************************************)
Loops == {1, 2}
PIPELINE_NAME == "spotify"
PIPELINE_CONFIG == "c1"

\* faults: the statuses whose write this invocation saw fail
NoInv ==
    [loop |-> 0, pc |-> "none", logger |-> 0, file |-> <<>>, body |-> "none",
     faults |-> {}]
InProgress(k) == invs[k].pc \notin {"returned", "raised"}
InvsOf(p) == {k \in 1..Len(invs) : invs[k].loop = p}

\* what schedule.run_pending() makes of the loop when it runs the job:
\* run_pipeline is called in the thread of the loop
run_job_threaded(p, k) == [loops[p] EXCEPT !.due = FALSE]
run_job(p, k) == [loops[p] EXCEPT !.pc = "in_job", !.job = k, !.due = FALSE]

\* the loop after invocation k has returned, or has raised
job_done(L, k, raised) ==
    [p \in Loops |->
        IF L[p].pc = "in_job" /\ L[p].job = k
        THEN [L[p] EXCEPT !.pc = IF raised THEN "crashed" ELSE "idle", !.job = 0]
        ELSE L[p]]

\* PipelineLogging.get_logs: the content of the log file of the run
get_logs_none(file) == NoLogs
get_logs(file) == file

\* where the try block goes after metadata_logger.log(): on to the pipeline
\* body, or to the except clause when the write raised
after_log_start_ignore_error(err) == "body"
after_log_start(err) == IF err = "none" THEN "body" ELSE "except"

\* the schedule interval elapses
Elapse(p) ==
    /\ loops[p].pc # "crashed"
    /\ ~loops[p].due
    /\ Len(invs) < MaxRuns
    /\ loops' = [loops EXCEPT ![p].due = TRUE]
    /\ UNCHANGED <<invs, log_vars, fetch_vars, load_vars, tf_vars>>

\* while True: schedule.run_pending() finds the job due and calls
\* run_pipeline, which first constructs its PipelineLogging
run_pending(p) ==
    /\ loops[p].pc = "idle"
    /\ loops[p].due
    /\ Len(invs) < MaxRuns
    /\ invs' = Append(invs, [NoInv EXCEPT !.loop = p, !.pc = "construct"])
    /\ loops' = [loops EXCEPT ![p] = run_job(p, Len(invs) + 1)]
    /\ UNCHANGED <<log_vars, fetch_vars, load_vars, tf_vars>>

\* metadata_logger = MetaDataLogging(...), outside the try
run_construct(k, storage_ok) ==
    /\ invs[k].pc = "construct"
    /\ IF storage_ok
       THEN /\ loggers' = Append(loggers,
                    MetaDataLogging(log_table, PIPELINE_NAME, PIPELINE_CONFIG))
            /\ log_table' = _create_log_table(log_table)
            /\ invs' = [invs EXCEPT ![k].pc = "log_start", ![k].logger = Len(loggers) + 1]
            /\ UNCHANGED loops
       ELSE /\ invs' = [invs EXCEPT ![k].pc = "raised"]
            /\ loops' = job_done(loops, k, TRUE)
            /\ UNCHANGED <<loggers, log_table>>
    /\ log_call' = [NoLogCall EXCEPT !.op = "construct", !.storage_ok = storage_ok,
                        !.logger = IF storage_ok THEN Len(loggers) + 1 ELSE 0,
                        !.err = IF storage_ok THEN "none" ELSE "OperationalError",
                        !.before = log_table.rows]
    /\ UNCHANGED <<now, fetch_vars, load_vars, tf_vars>>

\* a call of metadata_logger.log made by invocation k
RunLog(k, status, logs, storage_ok) ==
    [op |-> "log", logger |-> invs[k].logger, status |-> status,
     timestamp |-> NoTimestamp, storage_ok |-> storage_ok,
     err |-> log(log_table, invs[k].logger, status, NoTimestamp, logs, now, storage_ok).err,
     attempts |-> log(log_table, invs[k].logger, status, NoTimestamp, logs, now, storage_ok).attempts,
     before |-> log_table.rows]

\* try: metadata_logger.log()
run_log_start(k, storage_ok) ==
    /\ invs[k].pc = "log_start"
    /\ log_call' = RunLog(k, RUN_START, NoLogs, storage_ok)
    /\ log_table' = log(log_table, invs[k].logger, RUN_START, NoTimestamp, NoLogs,
                        now, storage_ok).table
    /\ invs' = [invs EXCEPT ![k].pc = after_log_start(log_call'.err),
                   ![k].faults = IF log_call'.err = "none" THEN @ ELSE @ \cup {RUN_START}]
    /\ UNCHANGED <<now, loggers, loops, fetch_vars, load_vars, tf_vars>>

\* pipeline(config, pipeline_logging): completes, or raises on the way
run_body(k, raises) ==
    /\ invs[k].pc = "body"
    /\ invs' = [invs EXCEPT
                   ![k].pc = IF raises THEN "except" ELSE "log_success",
                   ![k].body = IF raises THEN "raised" ELSE "completed",
                   ![k].file = IF raises THEN @ \o <<"Starting pipeline run">>
                               ELSE @ \o <<"Starting pipeline run", "Pipeline run successful">>]
    /\ UNCHANGED <<loops, log_vars, fetch_vars, load_vars, tf_vars>>

\* metadata_logger.log(status=RUN_SUCCESS, logs=get_logs()); handlers.clear()
run_log_success(k, storage_ok) ==
    /\ invs[k].pc = "log_success"
    /\ log_call' = RunLog(k, RUN_SUCCESS, get_logs(invs[k].file), storage_ok)
    /\ log_table' = log(log_table, invs[k].logger, RUN_SUCCESS, NoTimestamp,
                        get_logs(invs[k].file), now, storage_ok).table
    /\ IF log_call'.err = "none"
       THEN /\ invs' = [invs EXCEPT ![k].pc = "returned"]
            /\ loops' = job_done(loops, k, FALSE)
       ELSE /\ invs' = [invs EXCEPT ![k].pc = "except", ![k].faults = @ \cup {RUN_SUCCESS}]
            /\ UNCHANGED loops
    /\ UNCHANGED <<now, loggers, fetch_vars, load_vars, tf_vars>>

\* except BaseException: logger.error(...);
\* metadata_logger.log(status=RUN_FAILURE, logs=get_logs()); handlers.clear()
run_except(k, storage_ok) ==
    /\ invs[k].pc = "except"
    /\ LET file == invs[k].file \o <<"Pipeline run failed">>
       IN  /\ log_call' = RunLog(k, RUN_FAILURE, get_logs(file), storage_ok)
           /\ log_table' = log(log_table, invs[k].logger, RUN_FAILURE, NoTimestamp,
                               get_logs(file), now, storage_ok).table
           /\ invs' = [invs EXCEPT ![k].file = file,
                           ![k].pc = IF log_call'.err = "none" THEN "returned" ELSE "raised",
                           ![k].faults = IF log_call'.err = "none" THEN @
                                         ELSE @ \cup {RUN_FAILURE}]
           /\ loops' = job_done(loops, k, log_call'.err # "none")
    /\ UNCHANGED <<now, loggers, fetch_vars, load_vars, tf_vars>>

InitRun ==
    /\ loops = [p \in Loops |-> [pc |-> "idle", job |-> 0, due |-> FALSE]]
    /\ invs = <<>>

NextRun ==
    \/ \E p \in Loops : Elapse(p)
    \/ \E p \in Loops : run_pending(p)
    \/ \E k \in 1..Len(invs), storage_ok \in BOOLEAN : run_construct(k, storage_ok)
    \/ \E k \in 1..Len(invs), storage_ok \in BOOLEAN : run_log_start(k, storage_ok)
    \/ \E k \in 1..Len(invs), raises \in BOOLEAN : run_body(k, raises)
    \/ \E k \in 1..Len(invs), storage_ok \in BOOLEAN : run_log_success(k, storage_ok)
    \/ \E k \in 1..Len(invs), storage_ok \in BOOLEAN : run_except(k, storage_ok)
    \/ Tick

(***************************************************************************)
(* The columns of the records transform builds (assets/spotify.py) and the *)
(* columns the destination tables declare (pipelines/spotify.py), by name. *)
(* The input is the set of keys the fetched data carries: the columns      *)
(* json_normalize makes of the playlist items, the keys of the playlist    *)
(* metadata and the keys of an artist object.  Selecting a column that is  *)
(* not there raises KeyError.                                              *)
(***************************************************************************)
ItemKeys ==
    {"track.id", "track.name", "track.popularity", "track.duration_ms",
     "track.album.id", "track.album.name", "track.album.release_date",
     "track.album.total_tracks", "track.artists", "added_at", "track.href"}
PlaylistKeys == {"id", "name", "snapshot_id", "href"}
ArtistKeys == {"id", "name", "genres", "popularity", "href"}

\* every key a complete answer of the remote source carries
AllKeys ==
    ({"item"} \X ItemKeys) \cup ({"playlist"} \X PlaylistKeys)
        \cup ({"artist"} \X ArtistKeys)

KeysOf(present, part) == {k[2] : k \in {x \in present : x[1] = part}}

\* the Column names of each Table of table_schemas
declared_columns ==
    [tracks  |-> {"track_id", "track_name", "track_popularity", "track_duration_ms",
                  "track_added_at", "album_id", "artist_id", "playlist_id",
                  "playlist_name", "snapshot_id"},
     albums  |-> {"album_id", "album_name", "album_release_date",
                  "album_total_tracks"},
     artists |-> {"artist_id", "artist_name", "artist_genres",
                  "artist_popularity"}]

\* df[[...]]: the columns selected
TrackColumns ==
    {"track.id", "track.name", "track.popularity", "track.duration_ms",
     "track.album.id", "artist_ids", "added_at"}
AlbumColumns ==
    {"track.album.id", "track.album.name", "track.album.release_date",
     "track.album.total_tracks"}
ArtistColumns == {"id", "name", "genres", "popularity"}
\* playlist_metadata[...]: the keys read and the columns they fill
PlaylistFields ==
    {<<"id", "playlist_id">>, <<"name", "playlist_name">>,
     <<"snapshot_id", "snapshot_id">>}

\* .rename(columns={...})
TracksRenameNoAddedAt ==
    {<<"track.id", "track_id">>, <<"track.name", "track_name">>,
     <<"track.popularity", "track_popularity">>,
     <<"track.duration_ms", "track_duration_ms">>,
     <<"track.album.id", "album_id">>, <<"artist_ids", "artist_id">>}
TracksRename ==
    {<<"track.id", "track_id">>, <<"track.name", "track_name">>,
     <<"track.popularity", "track_popularity">>,
     <<"track.duration_ms", "track_duration_ms">>,
     <<"added_at", "track_added_at">>,
     <<"track.album.id", "album_id">>, <<"artist_ids", "artist_id">>}
AlbumsRename ==
    {<<"track.album.id", "album_id">>, <<"track.album.name", "album_name">>,
     <<"track.album.release_date", "album_release_date">>,
     <<"track.album.total_tracks", "album_total_tracks">>}
ArtistsRename ==
    {<<"id", "artist_id">>, <<"name", "artist_name">>,
     <<"genres", "artist_genres">>, <<"popularity", "artist_popularity">>}

\* DataFrame.rename: a column named in the mapping takes its new name
rename(columns, mapping) ==
    {IF \E m \in mapping : m[1] = c
     THEN (CHOOSE m \in mapping : m[1] = c)[2] ELSE c : c \in columns}

NoColumns == [tracks |-> {}, albums |-> {}, artists |-> {}]
KeyError == [err |-> "KeyError", columns |-> NoColumns]

\* extract_artist_data adds the column artist_ids, made of track.artists
extract_artist_columns(frame) == frame \cup {"artist_ids"}

\* the columns of df_tracks, df_albums and df_artists
transform_columns(frame, playlist_metadata, artist) ==
    IF \/ ~(TrackColumns \subseteq frame)
       \/ ~({f[1] : f \in PlaylistFields} \subseteq playlist_metadata)
       \/ ~(AlbumColumns \subseteq frame)
       \/ ~(ArtistColumns \subseteq artist)
    THEN KeyError
    ELSE [err |-> "none",
          columns |->
            [tracks  |-> rename(TrackColumns, TracksRename)
                            \cup {f[2] : f \in PlaylistFields},
             albums  |-> rename(AlbumColumns, AlbumsRename),
             artists |-> rename(ArtistColumns, ArtistsRename)]]

\* extract_artist_data, then transform, on data carrying the keys `present`
extract_and_transform(present) ==
    IF "track.artists" \notin KeysOf(present, "item") THEN KeyError
    ELSE transform_columns(extract_artist_columns(KeysOf(present, "item")),
                           KeysOf(present, "playlist"), KeysOf(present, "artist"))

NoInput == {}

\* one answer of the remote source, some of its keys missing, is transformed
Transform(missing) ==
    /\ tf_input = NoInput
    /\ tf_input' = AllKeys \ missing
    /\ tf_output' = extract_and_transform(AllKeys \ missing)
    /\ UNCHANGED <<fetch_vars, load_vars, log_vars, run_vars>>

InitTransform ==
    /\ tf_input = NoInput
    /\ tf_output = KeyError

NextTransform ==
    tf_input = NoInput /\
        \E missing \in {m \in SUBSET AllKeys : Cardinality(m) <= MaxMissing} :
            Transform(missing)

vars == <<fetch_vars, load_vars, log_vars, run_vars, tf_vars>>

Init == InitFetch /\ InitLoad /\ InitLog /\ InitRun /\ InitTransform

Next ==
    \/ NextFetch
    \/ NextLoad
    \/ NextLog
    \/ NextRun
    \/ NextPipeline
    \/ NextTransform

Spec == Init /\ [][Next]_vars

\* the fetcher alone
SpecFetch == Init /\ [][NextFetch]_vars

\* the load engine alone
SpecLoad == Init /\ [][NextLoad]_vars

\* repeated runs of the pipeline body
SpecPipeline == Init /\ [][NextPipeline]_vars

\* extract_artist_data and transform alone
SpecTransform == Init /\ [][NextTransform]_vars

\* the logging class alone
SpecLogger == Init /\ [][NextLog]_vars

\* the driver processes: scheduling loops and their invocations
SpecRun == Init /\ [][NextRun]_vars

\* the same, with every process running on: a statement that can be executed
\* is executed, the interval elapses, the clock advances
SpecRunFair == SpecRun /\ WF_vars(NextRun)

(***************************************************************************)
(* Properties of the paginated fetcher.                                    *)
(***************************************************************************)
RECURSIVE FlattenPages(_)
FlattenPages(pages) ==
    IF pages = <<>> THEN <<>>
    ELSE pages[1].items \o FlattenPages(Tail(pages))

\* C1: a fetch that returns hands back the concatenation of every page's
\* items in page order: nothing dropped, duplicated, reordered or
\* deduplicated.
C1_Concatenation ==
    fetch_pc = "returned" =>
        /\ fetch_ret.kind = "return"
        /\ fetch_ret.all_tracks = FlattenPages(api.pages)

\* a three-page fetch returned more items than there are distinct items, so
\* some item occurs twice in the result
C1_Witness ==
    /\ fetch_pc = "returned"
    /\ Len(api.pages) = MaxPages
    /\ \A i \in 1..Len(api.pages) : Len(api.pages[i].items) > 0
    /\ Len(fetch_ret.all_tracks) > Cardinality(Items)

\* C2: a request answered with a non-success status is the last request of
\* the fetch, the fetch raises with that status, and no item reaches the
\* caller.
C2_AbortOnError ==
    \A i \in 1..Len(requests) :
        api.pages[requests[i]].status # HTTP_OK =>
            /\ i = Len(requests)
            /\ fetch_pc = "raised"
            /\ fetch_ret.kind = "raise"
            /\ fetch_ret.status = api.pages[requests[i]].status
            /\ fetch_ret.all_tracks = <<>>

\* a follow-up request failed after items of earlier pages were accumulated
C2_Witness ==
    /\ fetch_pc = "raised"
    /\ Len(requests) > 1
    /\ Len(all_tracks) > 0
    /\ fetch_ret.kind = "raise"

\* C3 as stated: the returned metadata object equals the first response.
C3_MetadataIsFirstResponse ==
    fetch_pc = "returned" => fetch_ret.playlist_data = PlaylistObject(api)

\* C3 amended: the returned metadata object carries the first response's
\* top-level fields other than `tracks` unchanged, its `tracks` is the
\* paging object of the last page fetched, and it comes with the fully
\* concatenated item list.
C3_MetadataKeepsTopLevel ==
    fetch_pc = "returned" =>
        /\ fetch_ret.playlist_data.id = PlaylistObject(api).id
        /\ fetch_ret.playlist_data.name = PlaylistObject(api).name
        /\ fetch_ret.playlist_data.snapshot_id = PlaylistObject(api).snapshot_id
        /\ fetch_ret.playlist_data.tracks = PageObject(api, Len(api.pages))
        /\ fetch_ret.all_tracks = FlattenPages(api.pages)

\* a fetch over several pages returned, and the last page differs from the
\* first
C3_Witness ==
    /\ fetch_pc = "returned"
    /\ Len(api.pages) > 1
    /\ api.pages[1].items # api.pages[Len(api.pages)].items
    /\ fetch_ret.playlist_data.snapshot_id = "s2"

(***************************************************************************)
(* Properties of the load engine.  They read the observed call: its        *)
(* arguments in call, the database it found in pre, the database it left   *)
(* in db and its outcome in result.                                        *)
(***************************************************************************)
Observed(op) == ncalls >= 1 /\ call.op = op

\* the batch and the schema of an observed insert, overwrite or upsert
CallTable == table_schemas[call.table]
CallData == to_dict(CallTable, call.tpl)

\* the batch an observed load_data hands over for table t
LoadBatch(t) == to_dict(table_schemas[t], call.tpl)

PkOf(rec, t) == [c \in table_schemas[t].primary_key |-> rec[c]]
NonKeyOf(rec, t) ==
    [c \in table_schemas[t].columns \ table_schemas[t].primary_key |-> rec[c]]
PkSet(recs, t) == {PkOf(r, t) : r \in recs}

DistinctKeys(data, t) ==
    \A i, j \in 1..Len(data) : i # j => PkOf(data[i], t) # PkOf(data[j], t)

\* every record of the batch is in the table afterwards: a record whose key
\* was there has replaced the non-key columns of that row, the key columns
\* as they were, and a record whose key was not there is a new row
EveryRecordApplied(data, t) ==
    \A i \in 1..Len(data) :
        IF PkOf(data[i], t) \in PkSet(pre.tables[t].rows, t)
        THEN \E old \in pre.tables[t].rows : \E new \in db.tables[t].rows :
                /\ PkOf(old, t) = PkOf(data[i], t)
                /\ PkOf(new, t) = PkOf(old, t)
                /\ NonKeyOf(new, t) = NonKeyOf(data[i], t)
                /\ \A r \in db.tables[t].rows :
                       PkOf(r, t) = PkOf(old, t) => r = new
        ELSE data[i] \in db.tables[t].rows

\* the table of the observed call exists when its statement runs: it was
\* there, or create_all made it
TargetExists ==
    pre.tables[call.table].exists \/ call.table \in call.metadata

\* C4 as stated: an upsert into a table applies every record of the batch.
C4_UpsertAppliesEveryRecord ==
    (Observed("upsert") /\ TargetExists) =>
        /\ result = "ok"
        /\ EveryRecordApplied(CallData, call.table)

\* C4 amended: an upsert into a table of a batch whose records have pairwise
\* distinct primary keys applies every record (conflicts found on exactly
\* the declared primary-key columns); a batch in which two records share a
\* primary key fails as a whole and leaves the table as it was.
C4_UpsertDistinctKeys ==
    (Observed("upsert") /\ TargetExists) =>
        IF DistinctKeys(CallData, call.table)
        THEN /\ result = "ok"
             /\ EveryRecordApplied(CallData, call.table)
        ELSE /\ result = "CardinalityViolation"
             /\ db.tables[call.table].rows = pre.tables[call.table].rows

\* an upsert overwrote the non-key column of an existing row and inserted a
\* row with a new key
C4_Witness ==
    /\ Observed("upsert") /\ result = "ok"
    /\ \E i, j \in 1..Len(CallData) :
        /\ \E old \in pre.tables[call.table].rows :
              /\ PkOf(old, call.table) = PkOf(CallData[i], call.table)
              /\ old # CallData[i]
        /\ PkOf(CallData[j], call.table) \notin PkSet(pre.tables[call.table].rows, call.table)

\* C5: loading a record set a second time with strategy upsert leaves every
\* table as the first load left it.
C5_UpsertIdempotent ==
    (ncalls = 2 /\ call.op = "load_data" /\ call.load_method = "upsert") =>
        db.tables = pre.tables

\* two tables were loaded twice with upsert, both loads completing
C5_Witness ==
    /\ ncalls = 2 /\ call.op = "load_data" /\ call.load_method = "upsert"
    /\ result = "ok"
    /\ Len(call.names) = 2
    /\ Len(call.tpl) = MaxBatch
    /\ \A t \in TableNames : db.tables[t].rows = Range(LoadBatch(t))
    /\ Cardinality(db.tables["tracks"].rows) > 1

\* C6: load_data with strategy overwrite into a table holding rows A, of a
\* record set B whose keys are disjoint from A's, completes and leaves
\* exactly B's rows.
C6_OverwriteLeavesOnlyB ==
    \A t \in TableNames :
        ( /\ Observed("load_data") /\ call.load_method = "overwrite"
          /\ call.names = <<t>>
          /\ pre.tables[t].exists /\ pre.tables[t].rows # {}
          /\ DistinctKeys(LoadBatch(t), t)
          /\ PkSet(Range(LoadBatch(t)), t) \cap PkSet(pre.tables[t].rows, t) = {} )
        => /\ result = "ok"
           /\ db.tables[t].exists
           /\ db.tables[t].rows = Range(LoadBatch(t))

\* C7: overwrite, given the MetaData its table is registered in, succeeds
\* whatever the state of the table (absent, present, present with a
\* dependent view) and leaves the table holding the batch.
C7_OverwriteAlwaysSucceeds ==
    ( /\ Observed("overwrite") /\ call.metadata = SchemaMetaData
      /\ DistinctKeys(CallData, call.table) )
    => /\ result = "ok"
       /\ db.tables[call.table].exists
       /\ db.tables[call.table].rows = Range(CallData)

\* C8: load_data with strategy insert, of a batch that collides with no
\* row, creates the table when it is absent, leaves its rows in place when
\* it exists, and appends the batch.
C8_InsertEnsuresTable ==
    \A t \in TableNames :
        ( /\ Observed("load_data") /\ call.load_method = "insert"
          /\ call.names = <<t>>
          /\ DistinctKeys(LoadBatch(t), t)
          /\ PkSet(Range(LoadBatch(t)), t) \cap PkSet(pre.tables[t].rows, t) = {} )
        => /\ result = "ok"
           /\ db.tables[t].exists
           /\ db.tables[t].rows = pre.tables[t].rows \cup Range(LoadBatch(t))

\* C9: an insert of a batch in which some record's primary key is already
\* in the table fails with a constraint violation and leaves the table as
\* it was: no row modified, no record of the batch inserted.
C9_InsertRejectsCollision ==
    ( /\ Observed("insert")
      /\ PkSet(Range(CallData), call.table)
            \cap PkSet(pre.tables[call.table].rows, call.table) # {} )
    => /\ result = "UniqueViolation"
       /\ db.tables[call.table] = pre.tables[call.table]

\* an insert failed whose batch held a colliding record with new values and
\* a record with a new key
C9_Witness ==
    /\ Observed("insert") /\ result = "UniqueViolation"
    /\ \E i, j \in 1..Len(CallData) :
        /\ \E old \in pre.tables[call.table].rows :
              /\ PkOf(old, call.table) = PkOf(CallData[i], call.table)
              /\ old # CallData[i]
        /\ PkOf(CallData[j], call.table) \notin PkSet(pre.tables[call.table].rows, call.table)

\* C10: load_data with a load method other than insert, upsert or overwrite
\* raises and leaves the database untouched: no table created, dropped or
\* written.
C10_InvalidMethodNoIO ==
    (Observed("load_data") /\ call.load_method \notin LoadMethods) =>
        /\ result = "InvalidLoadMethod"
        /\ db = pre

\* load_data was called with an unknown method for two tables, one holding
\* rows and one absent
C10_Witness ==
    /\ Observed("load_data") /\ call.load_method \notin LoadMethods
    /\ result = "InvalidLoadMethod"
    /\ call.names = <<"tracks", "albums">>
    /\ pre.tables["tracks"].rows # {}
    /\ ~pre.tables["albums"].exists

\* C11: when load_data fails because a name of the batch has no schema, no
\* destination table has been modified, wherever the name sits.
C11_SchemaNotFoundNoWrite ==
    (Observed("load_data") /\ result = "SchemaNotFound") => db.tables = pre.tables

(***************************************************************************)
(* Properties of the run metadata logger.                                  *)
(***************************************************************************)
MaxOf(S) == CHOOSE m \in S : \A i \in S : i <= m
OwnRunIds(l) == {x[2] : x \in {y \in l.seen : y[1] = l.pipeline_name}}

\* C12: a logger constructed for pipeline_name P holds run_id 1 + the greatest
\* run_id among the rows of P the table held at its construction, or 1 when
\* there was no such row; rows of other pipeline names do not count.
C12_RunIdFromOwnRows ==
    \A i \in 1..Len(loggers) :
        loggers[i].run_id =
            IF OwnRunIds(loggers[i]) = {} THEN 1 ELSE 1 + MaxOf(OwnRunIds(loggers[i]))

\* a logger got run_id 1 while the table held rows of another pipeline name
C12_Witness ==
    \E i \in 1..Len(loggers) :
        /\ loggers[i].run_id = 1
        /\ \E x \in loggers[i].seen : x[1] # loggers[i].pipeline_name

\* C13: loggers constructed one after the other for the same pipeline name
\* are allocated increasing run ids (1, 2, 3, ...): no construction returns a
\* run_id an earlier construction for that name was allocated.
C13_NeverReusesRunId ==
    \A i, j \in 1..Len(loggers) :
        (i < j /\ loggers[i].pipeline_name = loggers[j].pipeline_name)
            => loggers[i].run_id < loggers[j].run_id

\* C17: when the storage write of a log call fails, the call raises the error
\* after exactly one attempt, and the table holds the rows it held before.
C17_WriteFailurePropagates ==
    (log_call.op = "log" /\ ~log_call.storage_ok)
        => /\ log_call.err = "OperationalError"
           /\ log_call.attempts = 1
           /\ log_table.rows = log_call.before

\* a log call on a table that already holds rows met a storage failure
C17_Witness ==
    /\ log_call.op = "log"
    /\ ~log_call.storage_ok
    /\ log_call.before # {}

(***************************************************************************)
(* Properties of run_pipeline and the scheduling loop.                     *)
(***************************************************************************)
\* the rows invocation k wrote, by status
RowsOf(k, status) ==
    {r \in log_table.rows : r.logger = invs[k].logger /\ r.status = status}
Finished(k) == invs[k].pc \in {"returned", "raised"}
OneStartOneTerminal(k, terminal, other) ==
    /\ Cardinality(RowsOf(k, RUN_START)) = 1
    /\ Cardinality(RowsOf(k, terminal)) = 1
    /\ RowsOf(k, other) = {}
    /\ \A r \in RowsOf(k, RUN_START) \cup RowsOf(k, terminal) :
          r.run_id = loggers[invs[k].logger].run_id
    /\ \A r1 \in RowsOf(k, RUN_START), r2 \in RowsOf(k, terminal) :
          r1.timestamp <= r2.timestamp

C16_LoopNeverCrashes ==
    /\ \A k \in 1..Len(invs) : invs[k].pc # "raised"
    /\ \A p \in Loops : loops[p].pc # "crashed"

\* C18: the allocation takes no account of loggers constructed meanwhile: two
\* loggers for one pipeline name that read the same greatest run_id hold the
\* same run_id.
C18_SameReadSameRunId ==
    \A i, j \in 1..Len(loggers) :
        (/\ loggers[i].pipeline_name = loggers[j].pipeline_name
         /\ OwnRunIds(loggers[i]) = OwnRunIds(loggers[j]))
            => loggers[i].run_id = loggers[j].run_id

\* two overlapping runs hold the same run_id and both have written rows
C18_Witness ==
    \E k1, k2 \in 1..Len(invs) :
        /\ k1 # k2
        /\ InProgress(k1) /\ InProgress(k2)
        /\ invs[k1].logger # 0 /\ invs[k2].logger # 0
        /\ loggers[invs[k1].logger].run_id = loggers[invs[k2].logger].run_id
        /\ \E r \in log_table.rows : r.logger = invs[k1].logger
        /\ \E r \in log_table.rows : r.logger = invs[k2].logger

\* the schedule interval has elapsed while the job of loop p is still running
Late(p) == loops[p].pc = "in_job" /\ loops[p].due
Running(p) == {k \in InvsOf(p) : InProgress(k)}

\* C19 as stated: a run that outlasts the schedule interval does not return
\* before the loop has two invocations executing at the same time.
C19_LateRunOverlaps ==
    [][\A p \in Loops :
          (Late(p) /\ loops'[p].pc = "idle") => Cardinality(Running(p)) >= 2]_vars

\* C19 amended: a scheduling loop has at most one invocation in progress, and
\* while it is in progress the loop is inside run_pending, also when the
\* interval has elapsed meanwhile.
C19_OneInvocationPerLoop ==
    \A p \in Loops :
        /\ Cardinality(Running(p)) <= 1
        /\ \A k \in Running(p) : loops[p].pc = "in_job" /\ loops[p].job = k

\* the interval elapsed during a run of a loop that has a run left to make
C19_Witness ==
    \E p \in Loops : Late(p) /\ Running(p) # {} /\ Len(invs) < MaxRuns

(***************************************************************************)
(* Properties of the pipeline body.                                        *)
(***************************************************************************)
\* C20: a second run of the pipeline against the same source snapshot leaves
\* every destination table as the first run left it.
C20_RepeatedRunsConverge ==
    (Observed("pipeline") /\ ncalls = 2) => db.tables = pre.tables

\* a run that loaded two items was repeated and went through again
C20_Witness ==
    /\ Observed("pipeline")
    /\ ncalls = 2
    /\ result = "ok"
    /\ Len(call.source.items) >= 2
    /\ \A t \in TableNames : db.tables[t].rows # {}


(***************************************************************************)
(* C21: an overwrite that stops after its drop step, because the insert    *)
(* fails or because the process is interrupted, leaves the destination     *)
(* table absent or empty; the rows it held before the call are gone.       *)
(***************************************************************************)
StoppedAfterDrop ==
    /\ \/ Observed("overwrite") /\ result \notin {"ok", "DependentObjectsStillExist"}
       \/ Observed("overwrite_interrupted") /\ result = "Interrupted"

C21_StoppedOverwriteLosesRows ==
    StoppedAfterDrop =>
        /\ db.tables[call.table] \in {NoTable, EmptyTable}
        /\ pre.tables[call.table].rows # {} => db.tables[call.table] # pre.tables[call.table]

\* the insert of an overwrite fails on a table that held rows
C21_Witness ==
    /\ Observed("overwrite")
    /\ result = "UniqueViolation"
    /\ pre.tables[call.table].rows # {}
    /\ db.tables[call.table] = EmptyTable

\* an overwrite is interrupted on a table that held rows
C21_WitnessInterrupted ==
    /\ Observed("overwrite_interrupted")
    /\ result = "Interrupted"
    /\ pre.tables[call.table].rows # {}
    /\ db.tables[call.table] = NoTable


(***************************************************************************)
(* C22: every call log(status=start) on a logger, with the current or a    *)
(* supplied timestamp, writes an entry with the logger's run_id, that      *)
(* timestamp, the constructor's config and null logs.  As stated it fails  *)
(* for a second start call that carries the timestamp of an earlier one:   *)
(* the two rows have one primary key.                                      *)
(***************************************************************************)
StartCall == log_call.op = "log" /\ log_call.status = RUN_START

\* the timestamp the observed call stores: the supplied one, or the current
\* time in whole seconds (time stands still once a call is observed)
CallTimestamp ==
    IF log_call.timestamp = NoTimestamp THEN now \div TicksPerSecond
    ELSE log_call.timestamp

\* the entry the observed call is to write
StartEntryWritten ==
    \E r \in log_table.rows \ log_call.before :
        /\ r.pipeline_name = loggers[log_call.logger].pipeline_name
        /\ r.run_id = loggers[log_call.logger].run_id
        /\ r.timestamp = CallTimestamp
        /\ r.status = RUN_START
        /\ r.config = loggers[log_call.logger].config
        /\ r.logs = NoLogs

\* an earlier entry holds the primary key of the entry the call is to write
KeyTaken ==
    \E r \in log_call.before :
        /\ r.pipeline_name = loggers[log_call.logger].pipeline_name
        /\ r.run_id = loggers[log_call.logger].run_id
        /\ r.timestamp = CallTimestamp
        /\ r.status = RUN_START

\* the claim as stated (the storage being reachable)
C22_EveryStartCallWrites ==
    (StartCall /\ log_call.storage_ok) => StartEntryWritten

\* a start call whose key is free writes exactly its entry; one whose key is
\* taken raises UniqueViolation and writes nothing
C22_StartCallWritesUnlessKeyTaken ==
    (StartCall /\ log_call.storage_ok) =>
        IF KeyTaken
        THEN log_call.err = "UniqueViolation" /\ log_table.rows = log_call.before
        ELSE /\ log_call.err = "none"
             /\ StartEntryWritten
             /\ Cardinality(log_table.rows) = Cardinality(log_call.before) + 1

\* a logger that has written a start entry writes a second one, a second later
C22_Witness ==
    /\ StartCall
    /\ StartEntryWritten
    /\ \E r \in log_call.before :
           r.logger = log_call.logger /\ r.status = RUN_START


(***************************************************************************)
(* C23: after load_data with load_method=upsert has loaded a batch of N    *)
(* records with pairwise distinct primary keys into a table that existed   *)
(* and held no rows, select_all on that table returns exactly N rows.      *)
(***************************************************************************)
UpsertLoadedIntoEmpty ==
    /\ ncalls = 1
    /\ call.op = "load_data"
    /\ call.load_method = "upsert"
    /\ result = "ok"
    /\ fetched.table \in TableNames
    /\ pre.tables[fetched.table] = EmptyTable
    /\ DistinctKeys(LoadBatch(fetched.table), fetched.table)

C23_UpsertIntoEmptyReturnsN ==
    UpsertLoadedIntoEmpty =>
        /\ fetched.err = "none"
        /\ Len(fetched.rows) = Len(call.tpl)
        /\ Range(fetched.rows) = Range(LoadBatch(fetched.table))

\* two records with distinct keys are loaded and read back
C23_Witness ==
    /\ UpsertLoadedIntoEmpty
    /\ Len(call.tpl) = 2
    /\ Len(fetched.rows) = 2

(***************************************************************************)
(* C24: after a table is dropped and created afresh and a batch of records *)
(* with distinct primary keys is written to it, select_all returns one row *)
(* per written record, with the written values, in the order the records   *)
(* were written.                                                           *)
(***************************************************************************)
WrittenToFreshTable ==
    /\ ncalls = 1
    /\ call.op \in {"insert", "upsert", "overwrite"}
    /\ result = "ok"
    /\ fetched.table = call.table
    /\ pre.tables[call.table] = EmptyTable
    /\ DistinctKeys(CallData, call.table)

C24_SelectAllInWrittenOrder ==
    WrittenToFreshTable => fetched.rows = CallData

\* the part that does hold: the rows read back are the written records,
\* each once, in some order
C24_SelectAllReturnsWrittenRecords ==
    WrittenToFreshTable =>
        /\ fetched.err = "none"
        /\ Len(fetched.rows) = Len(CallData)
        /\ Range(fetched.rows) = Range(CallData)


(***************************************************************************)
(* C25: for every input, each record transform produces for tracks, albums *)
(* and artists supplies a value for exactly the columns declared in that   *)
(* table's schema; no declared column is missing from a submitted record.  *)
(***************************************************************************)
Transformed == tf_input # NoInput /\ tf_output.err = "none"

C25_RecordsHaveDeclaredColumns ==
    Transformed =>
        \A t \in DOMAIN declared_columns : tf_output.columns[t] = declared_columns[t]

\* an input transform does not raise on: only keys it never reads are missing
C25_Witness ==
    /\ Transformed
    /\ Cardinality(AllKeys \ tf_input) = 2
    /\ tf_output.columns.tracks = declared_columns.tracks


(***************************************************************************)
(* C26: for a chain of N pages get_playlist_data ends after exactly N      *)
(* requests: the initial one for the resource, then one per non-null       *)
(* continuation reference, sent to that reference itself, and none after a *)
(* page whose reference is null.  Every step of the loop issues a request, *)
(* so the bound on the requests is the bound on the steps.                 *)
(***************************************************************************)
C26_OneRequestPerPage ==
    /\ Len(requests) <= Len(api.pages)
    /\ \A i \in 1..Len(requests) :
          IF i = 1 THEN requests[i] = 1
          ELSE /\ PageObject(api, requests[i - 1]).next # NoNext
               /\ requests[i] = PageObject(api, requests[i - 1]).next
    /\ fetch_pc = "returned" =>
          /\ Len(requests) = Len(api.pages)
          /\ PageObject(api, requests[Len(requests)]).next = NoNext
    /\ fetch_pc = "loop" =>
          (playlist_data.tracks.next = NoNext <=> Len(requests) = Len(api.pages))

\* a chain of MaxPages pages was fetched to its end
C26_Witness ==
    /\ fetch_pc = "returned"
    /\ Len(api.pages) = MaxPages
    /\ Len(requests) = MaxPages


(***************************************************************************)
(* C27: in one pipeline invocation nothing is transformed or loaded before *)
(* extraction is complete: when a playlist page request or an artist       *)
(* request fails, the run ends without having created, dropped or written  *)
(* any destination table.                                                  *)
(***************************************************************************)
ExtractionFailed ==
    /\ Observed("pipeline")
    /\ \/ call.source.status # HTTP_OK
       \/ call.source.items # <<>> /\ call.source.artist_status # HTTP_OK

C27_FailedExtractionTouchesNoTable ==
    ExtractionFailed => result = "HTTPError" /\ db = pre

\* an artist request fails in a run that finds the destination tables absent
C27_Witness ==
    /\ ExtractionFailed
    /\ call.source.artist_status # HTTP_OK
    /\ \A t \in TableNames : ~db.tables[t].exists

\* a playlist page request fails in a run that finds rows of an earlier run
C27_WitnessPlaylist ==
    /\ ExtractionFailed
    /\ call.source.status # HTTP_OK
    /\ \E t \in TableNames : db.tables[t].rows # {}


(***************************************************************************)
(* C28: whatever writes to the log storage fail during run_pipeline, each  *)
(* terminal row (success or fail) of the log table comes with a start row  *)
(* for the same (pipeline_name, run_id) that was written before it.        *)
(***************************************************************************)
TerminalRows == {r \in log_table.rows : r.status \in {RUN_SUCCESS, RUN_FAILURE}}

\* a start row of the same pipeline and run, written no later than r
HasStartRow(r) ==
    \E st \in log_table.rows :
        /\ st.status = RUN_START
        /\ st.pipeline_name = r.pipeline_name
        /\ st.run_id = r.run_id
        /\ st.timestamp <= r.timestamp

WriterOf(r) == CHOOSE k \in 1..Len(invs) : invs[k].logger = r.logger

Extracted ==
    /\ Observed("pipeline")
    /\ call.source.status = HTTP_OK
    /\ call.source.items # <<>>
    /\ call.source.artist_status = HTTP_OK

\* the batch of the run for table t
PipelineBatch(t) == to_dict(table_schemas[t], transform(call.source.items)[t])

C29_BatchesHaveDistinctKeys ==
    Extracted =>
        \A t \in Range(PipelineTables) : DistinctKeys(PipelineBatch(t), t)

\* what does hold: two rows of the albums batch differ in some column
C29_AlbumRowsDiffer ==
    Extracted =>
        \A i, j \in 1..Len(PipelineBatch("albums")) :
            i # j => PipelineBatch("albums")[i] # PipelineBatch("albums")[j]


(***************************************************************************)
(* C30: a successful upsert deletes no row and leaves every row whose      *)
(* primary key does not occur in the batch as it was: the key set of the   *)
(* table afterwards is the union of its key set before and the keys of the *)
(* batch.  The rows of the other tables stay as they were.                 *)
(***************************************************************************)
UpsertDone == Observed("upsert") /\ result = "ok"

C30_UpsertFrame ==
    UpsertDone =>
        /\ PkSet(db.tables[call.table].rows, call.table)
              = PkSet(pre.tables[call.table].rows, call.table)
                    \cup PkSet(Range(CallData), call.table)
        /\ \A r \in pre.tables[call.table].rows :
              PkOf(r, call.table) \notin PkSet(Range(CallData), call.table)
                  => r \in db.tables[call.table].rows
        /\ \A t \in TableNames \ {call.table} :
              db.tables[t].rows = pre.tables[t].rows
        /\ db.views = pre.views

\* an upsert has rewritten one stored row and left another, whose key is not
\* in the batch, as it was
C30_Witness ==
    /\ UpsertDone
    /\ \E r \in pre.tables[call.table].rows :
          /\ PkOf(r, call.table) \notin PkSet(Range(CallData), call.table)
          /\ r \in db.tables[call.table].rows
    /\ \E r \in pre.tables[call.table].rows :
          /\ PkOf(r, call.table) \in PkSet(Range(CallData), call.table)
          /\ r \notin db.tables[call.table].rows

====
